---- MODULE Spec2Model ----
(***************************************************************************)
(* GitGlance: the client-side data-synchronisation and view-state engine   *)
(* of the App component.  Two source variants are modelled side by side:   *)
(*   variant = "index"  the latest App (src/Dockerfile:374), whose         *)
(*                      fetchRepos cancels the previous request;           *)
(*   variant = "app"    the earlier App (src/App.tsx:737), whose           *)
(*                      fetchRepos has no cancellation and no error state. *)
(* Every asynchronous function is cut at its awaits: the part before the   *)
(* first await belongs to the action of the handler that calls it, the     *)
(* part after the await is the action of the request's completion.         *)
(***************************************************************************)
EXTENDS Integers, Sequences, FiniteSets, TLC

\* ---------------------------------------------------------------- bounds
MaxReq == 3          \* feed search requests issued in one run
MaxPage == 3         \* highest page loadMore asks for in one run
MaxDeepReq == 36     \* requests of a run that pages to the limit
MaxDeepPage == 36    \* a page beyond the limit of either variant
MaxEarlyReq == 2     \* in such a run, the feed is refreshed within the first requests only
MaxToasts == 2       \* notifications queued at one time
MaxCards == 2        \* cards the user reaches: the first MaxCards of the grid
MaxClock == 2        \* last instant of the clock
MaxEnrich == 4       \* enrichment requests (insight and languages) issued in one run
MaxInst == 2         \* detail modals opened in one run
MaxOverlapAi == 2    \* classification requests of a run in which they overlap
MaxAi == 1           \* classification requests issued in one run

\* ------------------------------------------------------ program constants
PER_PAGE == 30
PAGE_LIMIT_INDEX == 15
PAGE_LIMIT_APP == 34

\* ------------------------------------------------------------- vocabulary
Tabs == {"trending", "latest", "saved"}
Ranges == {"today", "week", "month"}
Variants == {"index", "app"}

NULL == "null"
NoLanguages == "{}"
None == << >>
Some(v) == << v >>

RATE_LIMIT_MESSAGE == "GitHub API rate limit hit. Please wait a bit or add an authenticated proxy."
UNEXPECTED_MESSAGE == "Unexpected response from GitHub."
NETWORK_MESSAGE == "Failed to fetch"

VARIABLES
    variant,            \* which App is running
    strictMode,         \* development build: StrictMode re-runs the mount effects
    storeWritable,      \* localStorage.setItem succeeds (no quota or security error)
    hasApiKey,          \* getApiKey() returns a key
    reqBudget,          \* feed search requests the run may issue
    pageBudget,         \* highest page the run lets loadMore ask for
    aiBudget,           \* classification requests the run may issue
    phase,              \* "constructed" | "effects1" | "effects2" | "mounted" | "crashed"
    activeTab, activeRange,
    repos,              \* sequence of repository ids
    page, hasMore,
    isLoading, isFetchingMore,
    aiFilteredIds,      \* None or Some(sequence of ids)
    errorMessage,       \* NULL or a message
    reqs,               \* feed search requests whose promise has not settled
    requestController,  \* id of the request requestController.current belongs to, 0 = null
    nextReq,            \* id the next request gets
    lastUpdated,        \* None or Some(time)
    savedRepos,         \* sequence of [id, savedAt]
    store,              \* the durable record localStorage holds under the saved key
    pendingSaved,       \* setSavedRepos calls queued by the mount effects, not yet rendered
    searchQuery, isSmartFilterMode, isAiFiltering,
    aiReqs,             \* classification requests whose promise has not settled, each with
                        \* the feed it was given and (history) the session it was issued in
    nextAi,             \* id the next classification request gets
    selectedRepo,       \* None or Some(id): the repository of the open detail modal
    modalInst,          \* the mounted RepoDetailModal instance, 0 = none
    insight, insightLoading,    \* state of the mounted AIInsight
    languages, languagesLoading,\* state of the mounted RepoLanguages
    aiInsightCache,     \* repository id -> message
    languagesCache,     \* owner/name -> languages
    insightReqs,        \* generateContent calls whose promise has not settled
    langReqs,           \* languages fetches whose promise has not settled
    nextEnrich,         \* id the next enrichment request gets
    nextInst,           \* id the next modal instance gets
    toasts,             \* sequence of [id, message, type]
    now,                \* Date.now()
    \* history, not program state
    session,            \* id of the page-1 request that opened the current feed session
    applied,            \* per session, the page whose result was applied last (0: none)
    loads,              \* number of localStorage.getItem calls
    store0,             \* the durable record at startup
    toggles,            \* the last two toggleSave calls: [id, before, time], oldest first
    failed,             \* enrichment fetches that failed: [kind, repo]
    lastOp              \* the operation that ran last, with its argument (and, for an
                        \* answered search, the items of the response)

cfgVars == << variant, strictMode, storeWritable, hasApiKey, reqBudget, pageBudget, aiBudget, store0 >>
tabVars == << activeTab, activeRange >>
listVars == << repos, page, hasMore >>
fetchVars == << isLoading, isFetchingMore, aiFilteredIds, errorMessage, reqs, requestController, nextReq >>
feedVars == << tabVars, listVars, fetchVars, lastUpdated >>
feedHist == << session, applied >>
saveVars == << savedRepos, store, pendingSaved, loads, toggles >>
filterVars == << searchQuery, isSmartFilterMode, isAiFiltering, aiReqs, nextAi >>
modalVars == << selectedRepo, modalInst, insight, insightLoading, languages, languagesLoading >>
enrichVars == << modalVars, aiInsightCache, languagesCache, insightReqs, langReqs, nextEnrich, nextInst, failed >>
vars == << cfgVars, phase, feedVars, feedHist, saveVars, filterVars, enrichVars, toasts, now, lastOp >>

Op(name, arg) == [name |-> name, arg |-> arg]

\* ------------------------------------------------------------ pure helpers
Range(s) == { s[i] : i \in 1..Len(s) }

RECURSIVE Filter(_, _)
\* Array.prototype.filter with the predicate "id is in keep"
Filter(s, keep) ==
    IF s = << >> THEN << >>
    ELSE IF Head(s) \in keep THEN << Head(s) >> \o Filter(Tail(s), keep)
    ELSE Filter(Tail(s), keep)

NoDuplicates(s) == \A i, j \in 1..Len(s) : i # j => s[i] # s[j]

\* The repositories the remote search holds for a (category, range) pair are
\* numbered from a base of their own, so that two sessions share no id.
TabIndex(t) == IF t = "trending" THEN 0 ELSE 1
RangeIndex(r) == IF r = "today" THEN 0 ELSE IF r = "week" THEN 1 ELSE 2
SessionBase(t, r) == 1000 * (3 * TabIndex(t) + RangeIndex(r) + 1)

Shapes == {"full", "overlap", "short", "shortOverlap", "empty"}
OverlapBy == 2
ShortLen == 2

\* data.items of a successful search response for page p of session (t, r).
\* "overlap" pages start OverlapBy items early: the remote ranking shifted
\* between two page requests and the page repeats the tail of the page before.
Items(t, r, p, shape) ==
    LET first == SessionBase(t, r) + PER_PAGE * (p - 1)
    IN  CASE shape = "full" -> [i \in 1..PER_PAGE |-> first + i]
          [] shape = "overlap" -> [i \in 1..PER_PAGE |-> first + i - OverlapBy]
          [] shape = "short" -> [i \in 1..ShortLen |-> first + i]
          [] shape = "shortOverlap" -> [i \in 1..ShortLen |-> first + i - 1]
          [] OTHER -> << >>

PageLimit == IF variant = "index" THEN PAGE_LIMIT_INDEX ELSE PAGE_LIMIT_APP

\* the append of a page without the filter on ids already present
AppendAll(prev, items) == prev \o items

\* setRepos(prev => [...prev, ...items.filter(ni => !prev.find(pi => pi.id === ni.id))])
AppendNew(prev, items) == prev \o Filter(items, Range(items) \ Range(prev))

\* a response that replaces the sequence whatever its page
ApplyItemsReplaces(prev, p, items) == items

\* the repository sequence after a successful response for page p
ApplyItems(prev, p, items) == IF p = 1 THEN items ELSE AppendNew(prev, items)

\* has-more from the size of the page alone
HasMoreAfterIgnoresLimit(items, p) == Len(items) = PER_PAGE

\* setHasMore(data.items.length === 30 && p < limit)
HasMoreAfter(items, p) == Len(items) = PER_PAGE /\ p < PageLimit

\* the message of a status that does not single out 403
StatusMessageGeneric(status) == "GitHub API error (500)."

StatusMessage(status) ==
    IF status = 403 THEN RATE_LIMIT_MESSAGE ELSE "GitHub API error (500)."

\* ---------------------------------------------------------------- toasts
\* addToast: id = Date.now(), appended to the queue
AddToast(q, m, t) == Append(q, [id |-> now, message |-> m, type |-> t])

Message(text, repo) == [text |-> text, repo |-> repo]

RECURSIVE RemoveToastKeeps(_, _)
\* a filter with the comparison inverted: p.filter(t => t.id === id)
RemoveToastKeeps(q, id) ==
    IF q = << >> THEN << >>
    ELSE IF Head(q).id # id THEN RemoveToastKeeps(Tail(q), id)
    ELSE << Head(q) >> \o RemoveToastKeeps(Tail(q), id)

RECURSIVE RemoveToast(_, _)
\* removeToast: p.filter(t => t.id !== id)
RemoveToast(q, id) ==
    IF q = << >> THEN << >>
    ELSE IF Head(q).id = id THEN RemoveToast(Tail(q), id)
    ELSE << Head(q) >> \o RemoveToast(Tail(q), id)

\* ------------------------------------------------------------- fetchRepos
\* The state fetchRepos reads and writes, as one record, so that a handler's
\* statements compose in their source order.
Cur ==
    [isLoading |-> isLoading, isFetchingMore |-> isFetchingMore,
     aiFilteredIds |-> aiFilteredIds, errorMessage |-> errorMessage,
     reqs |-> reqs, requestController |-> requestController, nextReq |-> nextReq]

Install(s) ==
    /\ isLoading' = s.isLoading
    /\ isFetchingMore' = s.isFetchingMore
    /\ aiFilteredIds' = s.aiFilteredIds
    /\ errorMessage' = s.errorMessage
    /\ reqs' = s.reqs
    /\ requestController' = s.requestController
    /\ nextReq' = s.nextReq

\* a fetchRepos that leaves the previous request running
AbortNothing(rs, ctl) == rs

\* requestController.current?.abort(): the request the controller belongs to is
\* marked aborted; its promise rejects later (FetchAborted).
AbortCurrent(rs, ctl) ==
    { IF q.id = ctl THEN [q EXCEPT !.aborted = TRUE] ELSE q : q \in rs }

NewRequest(id, t, r, p, sid) ==
    [id |-> id, t |-> t, r |-> r, p |-> p, aborted |-> FALSE, session |-> sid]

\* fetchRepos(t, r, p) up to its first await, applied to the state s.
\* sid (not program state) is the id of the page-1 request that opened the
\* feed session the new request belongs to.
fetchRepos(s, t, r, p, sid) ==
    IF t = "saved" THEN s
    ELSE LET flagged == IF p = 1
                        THEN [s EXCEPT !.isLoading = TRUE, !.aiFilteredIds = None]
                        ELSE [s EXCEPT !.isFetchingMore = TRUE]
             q == NewRequest(s.nextReq, t, r, p, sid)
         IN  IF variant = "index"
             THEN [flagged EXCEPT !.reqs = AbortCurrent(s.reqs, s.requestController) \cup {q},
                                  !.requestController = s.nextReq,
                                  !.errorMessage = NULL,
                                  !.nextReq = s.nextReq + 1]
             ELSE [flagged EXCEPT !.reqs = s.reqs \cup {q},
                                  !.nextReq = s.nextReq + 1]

\* ------------------------------------------------------ durable save store
SavedRepo(id, savedAt) == [id |-> id, savedAt |-> savedAt]

Absent == [kind |-> "absent", val |-> << >>]
Corrupt == [kind |-> "corrupt", val |-> << >>]

\* JSON.stringify(savedRepos): the text of an array, one << id, savedAt >> per entry
Stringify(coll) == [kind |-> "json", val |-> [i \in 1..Len(coll) |-> << coll[i].id, coll[i].savedAt >>]]

\* JSON.parse(stored) returns a value (otherwise it throws)
Parsable(rec) == rec.kind = "json"
Parse(rec) == [i \in 1..Len(rec.val) |-> SavedRepo(rec.val[i][1], rec.val[i][2])]

\* if (stored): getItem returned a non-empty string
Truthy(rec) == rec.kind # "absent"

\* a write of the newest entry alone
SetItemNewestOnly(old, coll) ==
    IF storeWritable THEN Stringify(IF coll = << >> THEN << >> ELSE << coll[1] >>) ELSE old

\* localStorage.setItem(key, JSON.stringify(coll))
SetItem(old, coll) == IF storeWritable THEN Stringify(coll) ELSE old

\* The load effect: the setSavedRepos calls queued after it ran on record rec.
LoadEffect(queue, rec) ==
    IF Truthy(rec) /\ Parsable(rec) THEN Append(queue, Parse(rec)) ELSE queue

\* effects without any try/catch, in either variant
EffectThrowsUncaught(rec) ==
    (Truthy(rec) /\ ~Parsable(rec)) \/ ~storeWritable

\* app has no try/catch around JSON.parse and setItem: the exception leaves the
\* effect and React unmounts the tree.
EffectThrows(rec) ==
    variant = "app" /\ ((Truthy(rec) /\ ~Parsable(rec)) \/ ~storeWritable)

Ids(coll) == { coll[i].id : i \in 1..Len(coll) }

\* const savedRepoIds = useMemo(() => new Set(savedRepos.map(repo => repo.id)), [savedRepos])
savedRepoIds == Ids(savedRepos)

RECURSIVE Without(_, _)
\* prev.filter(r => r.id !== id)
Without(coll, id) ==
    IF coll = << >> THEN << >>
    ELSE IF Head(coll).id = id THEN Without(Tail(coll), id)
    ELSE << Head(coll) >> \o Without(Tail(coll), id)

\* toggleSave without the removal branch
ToggleSaveAlwaysAdds(prev, id, time) == << SavedRepo(id, time) >> \o prev

\* toggleSave pushing the new entry at the end
ToggleSaveAppends(prev, id, time) ==
    IF id \in Ids(prev) THEN Without(prev, id)
    ELSE prev \o << SavedRepo(id, time) >>

\* the updater of toggleSave
ToggleSaveUpdater(prev, id, time) ==
    IF id \in Ids(prev) THEN Without(prev, id)
    ELSE << SavedRepo(id, time) >> \o prev

\* records a previous run of the program can have left behind
FirstId == SessionBase("trending", "week") + 1
Stores ==
    { Absent, Corrupt, Stringify(<< >>),
      Stringify(<< SavedRepo(FirstId, 0) >>),
      Stringify(<< SavedRepo(FirstId + 1, 0), SavedRepo(FirstId, 0) >>) }

\* ------------------------------------------------------------------ Init
Init ==
    /\ variant \in Variants
    /\ strictMode \in BOOLEAN
    /\ (variant = "app" => ~strictMode)
    /\ storeWritable \in BOOLEAN
    /\ hasApiKey \in BOOLEAN
    /\ (variant = "app" => hasApiKey)
    /\ \/ reqBudget = MaxReq /\ pageBudget = MaxPage
       \/ reqBudget = MaxDeepReq /\ pageBudget = MaxDeepPage
    /\ aiBudget \in {MaxAi, MaxOverlapAi}
    /\ store \in Stores
    /\ store0 = store
    /\ phase = "constructed"
    /\ activeTab = "trending"
    /\ activeRange = "week"
    /\ repos = << >>
    /\ page = 1
    /\ hasMore = TRUE
    /\ isLoading = FALSE
    /\ isFetchingMore = FALSE
    /\ errorMessage = NULL
    /\ lastUpdated = None
    /\ aiFilteredIds = None
    /\ reqs = {}
    /\ requestController = 0
    /\ nextReq = 1
    /\ savedRepos = << >>
    /\ pendingSaved = << >>
    /\ loads = 0
    /\ toggles = << >>
    /\ searchQuery = ""
    /\ isSmartFilterMode = FALSE
    /\ isAiFiltering = FALSE
    /\ aiReqs = {}
    /\ nextAi = 1
    /\ selectedRepo = None
    /\ modalInst = 0
    /\ insight = None
    /\ insightLoading = FALSE
    /\ languages = NoLanguages
    /\ languagesLoading = TRUE
    /\ aiInsightCache = << >>
    /\ languagesCache = << >>
    /\ insightReqs = {}
    /\ langReqs = {}
    /\ nextEnrich = 1
    /\ nextInst = 1
    /\ failed = {}
    /\ session = 0
    /\ applied = [s \in 1..reqBudget + 1 |-> 0]
    /\ toasts = << >>
    /\ now = 1
    /\ lastOp = Op("init", 0)

\* useEffect(() => { setPage(1); setHasMore(true); setRepos([]);
\*                   fetchRepos(activeTab, activeRange, 1); }, [activeTab, activeRange, fetchRepos])
\* followed, in the index variant, by the effect that clears the error on the
\* saved tab; t and r are the tab and range of the render that scheduled them.
ResetEffect(s, t, r) ==
    /\ page' = 1
    /\ hasMore' = TRUE
    /\ repos' = << >>
    /\ LET f == fetchRepos(s, t, r, 1, s.nextReq)
       IN  Install(IF variant = "index" /\ t = "saved"
                   THEN [f EXCEPT !.errorMessage = NULL] ELSE f)
    /\ session' = IF t = "saved" THEN session ELSE s.nextReq

\* The first commit: the mount effects run in declaration order (load, persist,
\* reset).  The persist effect sees the savedRepos of the first render.
MountEffects ==
    /\ phase = "constructed"
    /\ phase' = IF EffectThrows(store) THEN "crashed"
                ELSE IF strictMode THEN "effects1" ELSE "effects2"
    /\ loads' = loads + 1
    /\ pendingSaved' = LoadEffect(pendingSaved, store)
    /\ store' = SetItem(store, savedRepos)
    /\ ResetEffect(Cur, activeTab, activeRange)
    /\ lastOp' = Op("mount", 0)
    /\ UNCHANGED << cfgVars, enrichVars, tabVars, lastUpdated, applied, savedRepos, toggles, filterVars, toasts, now >>

\* StrictMode (development): every effect is cleaned up and run a second time
\* before the first update is rendered.  The cleanup of the unmount effect
\* aborts the request of the first run, which fetchRepos aborts again; the load
\* effect reads what the persist effect of the first run wrote.
StrictRemount ==
    /\ phase = "effects1"
    /\ phase' = "effects2"
    /\ loads' = loads + 1
    /\ pendingSaved' = LoadEffect(pendingSaved, store)
    /\ store' = SetItem(store, savedRepos)
    /\ ResetEffect([Cur EXCEPT !.reqs = AbortCurrent(reqs, requestController)],
                   activeTab, activeRange)
    /\ lastOp' = Op("remount", 0)
    /\ UNCHANGED << cfgVars, enrichVars, tabVars, lastUpdated, applied, savedRepos, toggles, filterVars, toasts, now >>

Last(q) == q[Len(q)]

\* The render of the updates the mount effects queued: the last setSavedRepos
\* wins, and the persist effect runs again because savedRepos changed.
MountCommit ==
    /\ phase = "effects2"
    /\ phase' = "mounted"
    /\ IF pendingSaved = << >>
       THEN UNCHANGED << savedRepos, store >>
       ELSE /\ savedRepos' = Last(pendingSaved)
            /\ store' = SetItem(store, Last(pendingSaved))
    /\ pendingSaved' = << >>
    /\ lastOp' = Op("commit", 0)
    /\ UNCHANGED << cfgVars, enrichVars, feedVars, feedHist, loads, toggles, filterVars, toasts, now >>

\* ------------------------------------------------------- user operations
\* a nav button: setActiveTab(t), then the effects of the render it causes
SetActiveTab(t) ==
    /\ phase = "mounted"
    /\ t # activeTab
    /\ (t # "saved" => nextReq <= reqBudget)
    /\ activeTab' = t
    /\ ResetEffect(Cur, t, activeRange)
    /\ lastOp' = Op("setActiveTab", 0)
    /\ UNCHANGED << cfgVars, enrichVars, phase, activeRange, lastUpdated, applied, saveVars, filterVars, toasts, now >>

\* a range button (rendered on the trending and latest tabs only)
SetActiveRange(r) ==
    /\ phase = "mounted"
    /\ activeTab # "saved"
    /\ r # activeRange
    /\ nextReq <= reqBudget
    /\ activeRange' = r
    /\ ResetEffect(Cur, activeTab, r)
    /\ lastOp' = Op("setActiveRange", 0)
    /\ UNCHANGED << cfgVars, enrichVars, phase, activeTab, lastUpdated, applied, saveVars, filterVars, toasts, now >>

\* handleRefresh: the logo (every tab), the refresh button and Retry
HandleRefresh ==
    /\ phase = "mounted"
    /\ (activeTab # "saved" => nextReq <= reqBudget)
    /\ Len(toasts) < MaxToasts
    /\ page' = 1
    /\ hasMore' = TRUE
    /\ repos' = << >>
    /\ Install(fetchRepos([Cur EXCEPT !.aiFilteredIds = None], activeTab, activeRange, 1, nextReq))
    /\ session' = IF activeTab = "saved" THEN session ELSE nextReq
    /\ toasts' = AddToast(toasts, Message("Refreshed Feed", 0), "success")
    /\ lastOp' = Op("handleRefresh", 0)
    /\ UNCHANGED << cfgVars, enrichVars, phase, tabVars, lastUpdated, applied, saveVars, filterVars, now >>

\* the guard of loadMore, which the IntersectionObserver callback repeats
LoadMoreGuard == ~isLoading /\ ~isFetchingMore /\ hasMore /\ activeTab # "saved"

\* The next-page trigger: the sentinel's IntersectionObserver callback, and
\* loadMore() which it calls.
LoadMore ==
    /\ phase = "mounted"
    /\ nextReq <= reqBudget
    /\ page < pageBudget
    /\ IF LoadMoreGuard
       THEN /\ page' = page + 1
            /\ Install(fetchRepos(Cur, activeTab, activeRange, page + 1, session))
       ELSE UNCHANGED << page, fetchVars >>
    /\ lastOp' = Op("loadMore", 0)
    /\ UNCHANGED << cfgVars, enrichVars, phase, tabVars, repos, hasMore, lastUpdated, feedHist,
                    saveVars, filterVars, toasts, now >>

LastTwo(q) == IF Len(q) > 2 THEN Tail(q) ELSE q

\* Texts are sequences of characters.  The text of a repository is remote
\* data: here "Rust" is in the name of the repositories whose id is 1 modulo
\* 4 and is the language of those whose id is 3 modulo 4; "LAB" is the
\* description of the odd multiples of three and "lab" a topic of the even ones.
Chars(text) ==
    CASE text = "rust" -> << "r", "u", "s", "t" >>
      [] text = "Rust" -> << "R", "u", "s", "t" >>
      [] text = "ab" -> << "a", "b" >>
      [] text = "lab" -> << "l", "a", "b" >>
      [] text = "LAB" -> << "L", "A", "B" >>
      [] text = "repo" -> << "r", "e", "p", "o" >>
      [] text = "owner" -> << "o", "w", "n", "e", "r" >>
      [] OTHER -> << >>

Repo(id) ==
    [name |-> Chars(IF id % 4 = 1 THEN "Rust" ELSE "repo"),
     login |-> Chars("owner"),
     description |-> Chars(IF id % 3 = 0 /\ id % 2 = 1 THEN "LAB" ELSE ""),
     language |-> Chars(IF id % 4 = 3 THEN "Rust" ELSE ""),
     topics |-> IF id % 3 = 0 /\ id % 2 = 0 THEN << Chars("lab") >> ELSE << >>]

\* String.prototype.toLowerCase
ToLowerCase(s) ==
    [i \in 1..Len(s) |-> CASE s[i] = "R" -> "r"
                            [] s[i] = "L" -> "l"
                            [] s[i] = "A" -> "a"
                            [] s[i] = "B" -> "b"
                            [] OTHER -> s[i]]

\* String.prototype.includes
Includes(s, sub) ==
    \E i \in 0..(Len(s) - Len(sub)) : SubSeq(s, i + 1, i + Len(sub)) = sub

\* the predicate of the keyword filter: index searches name, owner login,
\* description, language and topics; app searches name, owner login and
\* description
KeywordHit(id, query) ==
    LET r == Repo(id)
        haystack == IF variant = "index"
                    THEN << r.name, r.login, r.description, r.language >> \o r.topics
                    ELSE << r.name, r.login, r.description >>
    IN  \E i \in 1..Len(haystack) :
            Includes(ToLowerCase(haystack[i]), ToLowerCase(Chars(query)))

\* a composition that leaves the smart-filter result out
filteredReposWithoutAi ==
    IF activeTab = "saved" THEN [i \in 1..Len(savedRepos) |-> savedRepos[i].id] ELSE repos

\* a composition that starts from the feed on every tab
filteredReposFromFeed ==
    LET res == IF aiFilteredIds = None THEN repos
               ELSE Filter(repos, Range(aiFilteredIds[1]))
    IN  IF searchQuery = "" \/ isSmartFilterMode THEN res
        ELSE Filter(res, { id \in Range(res) : KeywordHit(id, searchQuery) })

\* the memo filteredRepos, as the sequence of ids it holds
filteredRepos ==
    LET source == IF activeTab = "saved"
                  THEN [i \in 1..Len(savedRepos) |-> savedRepos[i].id]
                  ELSE repos
        res == IF aiFilteredIds = None THEN source
               ELSE Filter(source, Range(aiFilteredIds[1]))
        hits == Filter(res, { id \in Range(res) : KeywordHit(id, searchQuery) })
    IN  IF searchQuery = "" THEN res
        ELSE IF variant = "index"
        THEN IF isSmartFilterMode THEN res ELSE hits
        ELSE IF isSmartFilterMode /\ aiFilteredIds = None /\ ~isAiFiltering THEN res
        ELSE IF isSmartFilterMode /\ aiFilteredIds # None THEN res
        ELSE hits

\* the source sequence of the view: the saved collection on the saved tab
Source ==
    IF activeTab = "saved" THEN [i \in 1..Len(savedRepos) |-> savedRepos[i].id] ELSE repos

AI_NO_MATCHES == "AI found no matches"
NO_RESULTS == "No results found"
NO_REPOSITORIES == "No repositories found"

\* the heading of the empty state, NULL when the grid renders none
EmptyState ==
    IF (isLoading /\ page = 1) \/ filteredRepos # << >> THEN NULL
    ELSE IF variant = "index" THEN NO_REPOSITORIES
    ELSE IF isLoading \/ isAiFiltering THEN NULL
    ELSE IF aiFilteredIds # None THEN AI_NO_MATCHES
    ELSE IF searchQuery # "" THEN NO_RESULTS
    ELSE IF activeTab = "saved" THEN "Your library is empty"
    ELSE "Something went wrong"

\* what the card grid shows (skeletons while page 1 loads)
Cards == IF isLoading /\ page = 1 THEN << >> ELSE filteredRepos

\* toggleSave(repo) from the bookmark button of one of the first MaxCards cards,
\* then the persist effect of the render it causes.  In a development build
\* StrictMode may run the updater, and the addToast in it, twice.
ToggleSave(i, k) ==
    /\ phase = "mounted"
    /\ i \in 1..Len(Cards)
    /\ k \in (IF strictMode THEN {1, 2} ELSE {1})
    /\ Len(toasts) + k <= MaxToasts
    /\ LET id == Cards[i]
           removing == id \in Ids(savedRepos)
           m == IF removing THEN Message("Removed", id) ELSE Message("Saved", id)
           ty == IF removing THEN "info" ELSE "success"
           once == AddToast(toasts, m, ty)
       IN  /\ savedRepos' = ToggleSaveUpdater(savedRepos, id, now)
           /\ toasts' = IF k = 1 THEN once ELSE AddToast(once, m, ty)
           /\ store' = SetItem(store, ToggleSaveUpdater(savedRepos, id, now))
           /\ toggles' = LastTwo(Append(toggles, [id |-> id, before |-> savedRepos, time |-> now]))
           /\ lastOp' = Op("toggleSave", id)
    /\ UNCHANGED << cfgVars, enrichVars, phase, feedVars, feedHist, pendingSaved, loads, filterVars, now >>

\* ------------------------------------------------------------ smart filter
Queries == {"", "ab", "rust"}

\* q.trim().length >= 3
LongEnough(query) == query = "rust"

\* the search box: onChange
SetSearchQuery(v) ==
    /\ phase = "mounted"
    /\ v # searchQuery
    /\ searchQuery' = v
    /\ lastOp' = Op("setSearchQuery", 0)
    /\ UNCHANGED << cfgVars, enrichVars, phase, feedVars, feedHist, saveVars, isSmartFilterMode,
                    isAiFiltering, aiReqs, nextAi, toasts, now >>

\* the smart-filter toggle (index disables it without a key)
ToggleSmartMode ==
    /\ phase = "mounted"
    /\ hasApiKey
    /\ isSmartFilterMode' = ~isSmartFilterMode
    /\ aiFilteredIds' = IF isSmartFilterMode THEN None ELSE aiFilteredIds
    /\ lastOp' = Op("toggleSmartMode", 0)
    /\ UNCHANGED << cfgVars, enrichVars, phase, tabVars, listVars, isLoading, isFetchingMore, errorMessage,
                    reqs, requestController, nextReq, lastUpdated, feedHist, saveVars,
                    searchQuery, isAiFiltering, aiReqs, nextAi, toasts, now >>

\* "Clear filters" of the empty state, and the X of app's search box
ClearFilters ==
    /\ phase = "mounted"
    /\ \/ Cards = << >> /\ ~(isLoading /\ page = 1) /\ (searchQuery # "" \/ aiFilteredIds # None)
       \/ variant = "app" /\ searchQuery # ""
    /\ searchQuery' = ""
    /\ aiFilteredIds' = None
    /\ lastOp' = Op("clearFilters", 0)
    /\ UNCHANGED << cfgVars, enrichVars, phase, tabVars, listVars, isLoading, isFetchingMore, errorMessage,
                    reqs, requestController, nextReq, lastUpdated, feedHist, saveVars,
                    isSmartFilterMode, isAiFiltering, aiReqs, nextAi, toasts, now >>

\* handleSearchSubmit, and runSmartFilter(searchQuery) up to its await
HandleSearchSubmit ==
    /\ phase = "mounted"
    /\ isSmartFilterMode
    /\ IF ~LongEnough(searchQuery)
       THEN /\ variant = "index" => Len(toasts) < MaxToasts
            /\ toasts' = IF variant = "index"
                         THEN AddToast(toasts, Message("Enter at least 3 characters to filter.", 0), "info")
                         ELSE toasts
            /\ UNCHANGED << isAiFiltering, aiReqs, nextAi >>
       ELSE IF ~hasApiKey
       THEN /\ Len(toasts) < MaxToasts
            /\ toasts' = AddToast(toasts, Message("Add a Gemini API key to enable Smart Filter.", 0), "error")
            /\ UNCHANGED << isAiFiltering, aiReqs, nextAi >>
       ELSE /\ nextAi <= aiBudget
            /\ isAiFiltering' = TRUE
            /\ aiReqs' = aiReqs \cup {[id |-> nextAi, snapshot |-> repos, session |-> session]}
            /\ nextAi' = nextAi + 1
            /\ UNCHANGED toasts
    /\ lastOp' = Op("handleSearchSubmit", 0)
    /\ UNCHANGED << cfgVars, enrichVars, phase, feedVars, feedHist, saveVars, searchQuery,
                    isSmartFilterMode, now >>

\* the id arrays the classification may answer for a feed snapshot
AiAnswers(snapshot) ==
    {<< >>} \cup (IF snapshot = << >> THEN {} ELSE {<< snapshot[1] >>})

\* the classification resolves: setAiFilteredIds(JSON.parse(res.text)), then
\* the finally block (app adds a toast with the number of matches)
AiResolve(a, ids) ==
    /\ phase = "mounted"
    /\ a \in aiReqs
    /\ ids \in AiAnswers(a.snapshot)
    /\ aiFilteredIds' = Some(ids)
    /\ isAiFiltering' = FALSE
    /\ aiReqs' = aiReqs \ {a}
    /\ variant = "app" => Len(toasts) < MaxToasts
    /\ toasts' = IF variant = "index" THEN toasts
                 ELSE IF ids = << >>
                 THEN AddToast(toasts, Message("No intelligent matches found", 0), "info")
                 ELSE AddToast(toasts, Message("AI matched projects", Len(ids)), "success")
    /\ lastOp' = Op("aiResolve", a.id)
    /\ UNCHANGED << cfgVars, enrichVars, phase, tabVars, listVars, isLoading, isFetchingMore, errorMessage,
                    reqs, requestController, nextReq, lastUpdated, feedHist, saveVars,
                    searchQuery, isSmartFilterMode, nextAi, now >>

\* a failure that also drops the smart-filter result
AiRejectClears(a) ==
    /\ phase = "mounted"
    /\ a \in aiReqs
    /\ Len(toasts) < MaxToasts
    /\ isAiFiltering' = FALSE
    /\ aiFilteredIds' = None
    /\ aiReqs' = aiReqs \ {a}
    /\ toasts' = AddToast(toasts, Message("Filter error", 0), "error")
    /\ lastOp' = Op("aiReject", a.id)
    /\ UNCHANGED << cfgVars, enrichVars, phase, tabVars, listVars, isLoading, isFetchingMore,
                    errorMessage, reqs, requestController, nextReq, lastUpdated, feedHist,
                    saveVars, searchQuery, isSmartFilterMode, nextAi, now >>

\* the classification rejects, or its text does not parse: the catch block
\* adds an error toast, then the finally block
AiReject(a) ==
    /\ phase = "mounted"
    /\ a \in aiReqs
    /\ Len(toasts) < MaxToasts
    /\ isAiFiltering' = FALSE
    /\ aiReqs' = aiReqs \ {a}
    /\ toasts' = AddToast(toasts, Message(IF variant = "index" THEN "Filter error"
                                          ELSE "AI filtering failed", 0), "error")
    /\ lastOp' = Op("aiReject", a.id)
    /\ UNCHANGED << cfgVars, enrichVars, phase, feedVars, feedHist, saveVars, searchQuery,
                    isSmartFilterMode, nextAi, now >>

\* ------------------------------------------------------------ enrichment
NEED_KEY_INSIGHT == "Add a Gemini API key to unlock AI insights for this repository."
DEFAULT_INSIGHT == IF variant = "index" THEN "A high-impact tool for modern developers."
                   ELSE "This repository seems like a solid addition to a modern dev stack."
FALLBACK_INSIGHT == IF variant = "index" THEN "Trending repository with significant community momentum."
                    ELSE "A trending utility that simplifies complex developer workflows."

\* Map.set
MapSet(m, k, v) == [x \in DOMAIN m \cup {k} |-> IF x = k THEN v ELSE m[x]]

\* the cache key `${owner}/${name}` of a repository
CacheKey(id) == << "owner", id >>

\* the state of the modal's components and the requests in flight
Enr == [insight |-> insight, insightLoading |-> insightLoading, languages |-> languages,
        languagesLoading |-> languagesLoading, insightReqs |-> insightReqs,
        langReqs |-> langReqs, nextEnrich |-> nextEnrich]

InstallEnrich(e) ==
    /\ insight' = e.insight
    /\ insightLoading' = e.insightLoading
    /\ languages' = e.languages
    /\ languagesLoading' = e.languagesLoading
    /\ insightReqs' = e.insightReqs
    /\ langReqs' = e.langReqs
    /\ nextEnrich' = e.nextEnrich

\* a freshly mounted AIInsight and RepoLanguages
Mounted(e) == [e EXCEPT !.insight = None, !.insightLoading = FALSE,
                        !.languages = NoLanguages, !.languagesLoading = TRUE]

\* an effect that calls the model whether or not a key is configured
fetchInsightKeyless(e, repo, inst) ==
    IF variant = "index" /\ repo \in DOMAIN aiInsightCache
    THEN [e EXCEPT !.insight = Some(aiInsightCache[repo])]
    ELSE [e EXCEPT !.insightLoading = TRUE,
                   !.insightReqs = @ \cup {[id |-> e.nextEnrich, repo |-> repo, inst |-> inst]},
                   !.nextEnrich = @ + 1]

\* AIInsight's effect up to its await
fetchInsight(e, repo, inst) ==
    LET call == [e EXCEPT !.insightLoading = TRUE,
                          !.insightReqs = @ \cup {[id |-> e.nextEnrich, repo |-> repo, inst |-> inst]},
                          !.nextEnrich = @ + 1]
    IN  IF variant = "app" THEN call
        ELSE IF repo \in DOMAIN aiInsightCache
        THEN [e EXCEPT !.insight = Some(aiInsightCache[repo])]
        ELSE IF ~hasApiKey THEN [e EXCEPT !.insight = Some(NEED_KEY_INSIGHT)]
        ELSE call

\* an effect that fetches the languages without consulting the cache
loadLanguagesUncached(e, repo, inst) ==
    [e EXCEPT !.langReqs = @ \cup {[id |-> e.nextEnrich, repo |-> repo,
                                     inst |-> inst, aborted |-> FALSE]},
              !.nextEnrich = @ + 1]

\* RepoLanguages' effect up to its await
loadLanguages(e, repo, inst) ==
    LET call == [e EXCEPT !.langReqs = @ \cup {[id |-> e.nextEnrich, repo |-> repo,
                                                inst |-> inst, aborted |-> FALSE]},
                          !.nextEnrich = @ + 1]
    IN  IF variant = "app" THEN call
        ELSE IF CacheKey(repo) \in DOMAIN languagesCache
        THEN [e EXCEPT !.languages = languagesCache[CacheKey(repo)], !.languagesLoading = FALSE]
        ELSE call

\* RepoLanguages' cleanup: controller.abort() (index only)
AbortLanguages(e, inst) ==
    IF variant = "app" THEN e
    ELSE [e EXCEPT !.langReqs = {IF r.inst = inst THEN [r EXCEPT !.aborted = TRUE] ELSE r : r \in @}]

\* the effects of a mounting modal, run twice under StrictMode
ModalEffects(e, repo, inst) ==
    LET once == loadLanguages(fetchInsight(Mounted(e), repo, inst), repo, inst)
    IN  IF strictMode
        THEN loadLanguages(fetchInsight(AbortLanguages(once, inst), repo, inst), repo, inst)
        ELSE once

\* a click on card i: setSelectedRepo(repo), the modal mounts
OpenModal(i) ==
    /\ phase = "mounted"
    /\ selectedRepo = None
    /\ i \in 1..Len(Cards)
    /\ nextInst <= MaxInst
    /\ LET e == ModalEffects(Enr, Cards[i], nextInst)
       IN  /\ e.nextEnrich <= MaxEnrich + 1
           /\ InstallEnrich(e)
    /\ selectedRepo' = Some(Cards[i])
    /\ modalInst' = nextInst
    /\ nextInst' = nextInst + 1
    /\ lastOp' = Op("openModal", Cards[i])
    /\ UNCHANGED << cfgVars, phase, feedVars, feedHist, saveVars, filterVars,
                    aiInsightCache, languagesCache, failed, toasts, now >>

\* onClose: setSelectedRepo(null), the modal unmounts
CloseModal ==
    /\ phase = "mounted"
    /\ selectedRepo # None
    /\ InstallEnrich(Mounted(AbortLanguages(Enr, modalInst)))
    /\ selectedRepo' = None
    /\ modalInst' = 0
    /\ lastOp' = Op("closeModal", 0)
    /\ UNCHANGED << cfgVars, phase, feedVars, feedHist, saveVars, filterVars,
                    aiInsightCache, languagesCache, nextInst, failed, toasts, now >>

\* generateContent resolves with a text (possibly empty)
InsightTexts == {"", "insight"}

InsightResolve(r, text) ==
    /\ r \in insightReqs
    /\ text \in InsightTexts
    /\ LET message == IF text = "" THEN DEFAULT_INSIGHT ELSE text
       IN  /\ aiInsightCache' = IF variant = "index" THEN MapSet(aiInsightCache, r.repo, message)
                                 ELSE aiInsightCache
           /\ insight' = IF r.inst = modalInst THEN Some(message) ELSE insight
    /\ insightLoading' = IF r.inst = modalInst THEN FALSE ELSE insightLoading
    /\ insightReqs' = insightReqs \ {r}
    /\ lastOp' = Op("insightResolve", r.id)
    /\ UNCHANGED << cfgVars, phase, feedVars, feedHist, saveVars, filterVars, selectedRepo,
                    modalInst, languages, languagesLoading, languagesCache, langReqs,
                    nextEnrich, nextInst, failed, toasts, now >>

\* a catch block that also remembers the fallback under the repository's key
InsightFailCaches(r) ==
    /\ r \in insightReqs
    /\ insight' = IF r.inst = modalInst THEN Some(FALLBACK_INSIGHT) ELSE insight
    /\ insightLoading' = IF r.inst = modalInst THEN FALSE ELSE insightLoading
    /\ insightReqs' = insightReqs \ {r}
    /\ aiInsightCache' = MapSet(aiInsightCache, r.repo, FALLBACK_INSIGHT)
    /\ failed' = failed \cup {[kind |-> "insight", repo |-> r.repo]}
    /\ lastOp' = Op("insightFail", r.id)
    /\ UNCHANGED << cfgVars, phase, feedVars, feedHist, saveVars, filterVars, selectedRepo,
                    modalInst, languages, languagesLoading, languagesCache,
                    langReqs, nextEnrich, nextInst, toasts, now >>

\* generateContent rejects: the catch block, then the finally block
InsightFail(r) ==
    /\ r \in insightReqs
    /\ insight' = IF r.inst = modalInst THEN Some(FALLBACK_INSIGHT) ELSE insight
    /\ insightLoading' = IF r.inst = modalInst THEN FALSE ELSE insightLoading
    /\ insightReqs' = insightReqs \ {r}
    /\ failed' = failed \cup {[kind |-> "insight", repo |-> r.repo]}
    /\ lastOp' = Op("insightFail", r.id)
    /\ UNCHANGED << cfgVars, phase, feedVars, feedHist, saveVars, filterVars, selectedRepo,
                    modalInst, languages, languagesLoading, aiInsightCache, languagesCache,
                    langReqs, nextEnrich, nextInst, toasts, now >>

\* the languages a response may carry
LanguageData == {"{}", "{TypeScript}"}

\* the languages fetch resolves with an ok response
LanguagesResolve(r, data) ==
    /\ r \in langReqs /\ ~r.aborted
    /\ data \in LanguageData
    /\ languagesCache' = IF variant = "index" THEN MapSet(languagesCache, CacheKey(r.repo), data)
                         ELSE languagesCache
    /\ languages' = IF r.inst = modalInst THEN data ELSE languages
    /\ languagesLoading' = IF r.inst = modalInst THEN FALSE ELSE languagesLoading
    /\ langReqs' = langReqs \ {r}
    /\ lastOp' = Op("languagesResolve", r.id)
    /\ UNCHANGED << cfgVars, phase, feedVars, feedHist, saveVars, filterVars, selectedRepo,
                    modalInst, insight, insightLoading, aiInsightCache, insightReqs,
                    nextEnrich, nextInst, failed, toasts, now >>

\* the languages fetch fails (not ok, or a network error): console.error,
\* then the finally block
LanguagesFail(r) ==
    /\ r \in langReqs /\ ~r.aborted
    /\ languagesLoading' = IF r.inst = modalInst THEN FALSE ELSE languagesLoading
    /\ langReqs' = langReqs \ {r}
    /\ failed' = failed \cup {[kind |-> "languages", repo |-> r.repo]}
    /\ lastOp' = Op("languagesFail", r.id)
    /\ UNCHANGED << cfgVars, phase, feedVars, feedHist, saveVars, filterVars, selectedRepo,
                    modalInst, insight, insightLoading, languages, aiInsightCache,
                    languagesCache, insightReqs, nextEnrich, nextInst, toasts, now >>

\* an aborted languages fetch rejects with AbortError: nothing is set
LanguagesAborted(r) ==
    /\ r \in langReqs /\ r.aborted
    /\ langReqs' = langReqs \ {r}
    /\ lastOp' = Op("languagesAborted", r.id)
    /\ UNCHANGED << cfgVars, phase, feedVars, feedHist, saveVars, filterVars, modalVars,
                    aiInsightCache, languagesCache, insightReqs, nextEnrich, nextInst, failed,
                    toasts, now >>

\* the clock advances
Tick ==
    /\ now < MaxClock
    /\ now' = now + 1
    /\ lastOp' = Op("tick", 0)
    /\ UNCHANGED << cfgVars, enrichVars, phase, feedVars, feedHist, saveVars, filterVars, toasts >>

\* ------------------------------------------------- request completions
\* a finally block that forgets the second flag
FinallyLoadingOnly == isLoading' = FALSE /\ UNCHANGED isFetchingMore

\* the finally block of fetchRepos for a request that was not aborted
Finally == isLoading' = FALSE /\ isFetchingMore' = FALSE

ShapesFor(p) == IF p = 1 THEN {"full", "short", "empty"} ELSE Shapes

\* res.ok and data.items present
FetchItems(q, shape) ==
    /\ phase = "mounted"
    /\ q \in reqs /\ ~q.aborted
    /\ shape \in ShapesFor(q.p)
    /\ LET items == Items(q.t, q.r, q.p, shape)
       IN  /\ repos' = ApplyItems(repos, q.p, items)
           /\ hasMore' = HasMoreAfter(items, q.p)
    /\ lastUpdated' = IF variant = "index" THEN Some(now) ELSE lastUpdated
    /\ Finally
    /\ reqs' = reqs \ {q}
    /\ applied' = [applied EXCEPT ![q.session] = q.p]
    /\ lastOp' = [name |-> "fetchItems", arg |-> q.id,
                  items |-> Items(q.t, q.r, q.p, shape)]
    /\ UNCHANGED << cfgVars, enrichVars, phase, tabVars, page, errorMessage, aiFilteredIds,
                    requestController, nextReq, session, saveVars, filterVars, toasts, now >>

\* what a failed request does: setHasMore(false), the message (index only),
\* then the finally block
FetchError(q, message, name) ==
    /\ phase = "mounted"
    /\ q \in reqs /\ ~q.aborted
    /\ hasMore' = FALSE
    /\ errorMessage' = IF variant = "index" THEN message ELSE errorMessage
    /\ Finally
    /\ reqs' = reqs \ {q}
    /\ lastOp' = Op(name, q)
    /\ UNCHANGED << cfgVars, enrichVars, phase, tabVars, repos, page, lastUpdated, aiFilteredIds,
                    requestController, nextReq, feedHist, saveVars, filterVars, toasts, now >>

\* a body without items
FetchNoItems(q) == FetchError(q, UNEXPECTED_MESSAGE, "fetchNoItems")

\* a non-success status: index throws the status message; app parses the
\* error body, which has no items
FetchNotOk(q, status) ==
    FetchError(q, StatusMessage(status), IF status = 403 THEN "fetchRateLimited" ELSE "fetchNotOk")

\* fetch() rejects (network failure) or res.json() rejects
FetchFailed(q) == FetchError(q, NETWORK_MESSAGE, "fetchFailed")

\* an aborted request whose finally block lacks the check of signal.aborted
FetchAbortedClearsFlags(q) ==
    /\ phase = "mounted"
    /\ q \in reqs /\ q.aborted
    /\ Finally
    /\ reqs' = reqs \ {q}
    /\ lastOp' = Op("fetchAborted", q.id)
    /\ UNCHANGED << cfgVars, enrichVars, phase, tabVars, listVars, aiFilteredIds,
                    errorMessage, requestController, nextReq, lastUpdated, feedHist,
                    saveVars, filterVars, toasts, now >>

\* the promise of an aborted request rejects with AbortError: the catch block
\* returns, and so does the finally block
FetchAborted(q) ==
    /\ phase = "mounted"
    /\ q \in reqs /\ q.aborted
    /\ reqs' = reqs \ {q}
    /\ lastOp' = Op("fetchAborted", q.id)
    /\ UNCHANGED << cfgVars, enrichVars, phase, tabVars, listVars, isLoading, isFetchingMore, aiFilteredIds,
                    errorMessage, requestController, nextReq, lastUpdated, feedHist,
                    saveVars, filterVars, toasts, now >>

\* ToastItem's 3000 ms timer, or its dismiss button: onDismiss(toast.id)
ToastExpire(i) ==
    /\ i \in 1..Len(toasts)
    /\ toasts' = RemoveToast(toasts, toasts[i].id)
    /\ lastOp' = Op("toastExpire", 0)
    /\ UNCHANGED << cfgVars, enrichVars, phase, feedVars, feedHist, saveVars, filterVars, now >>

\* ------------------------------------------------------- specifications
Mount == MountEffects \/ StrictRemount \/ MountCommit

Completion ==
    \/ \E q \in reqs, shape \in Shapes : FetchItems(q, shape)
    \/ \E q \in reqs : FetchNoItems(q)
    \/ \E q \in reqs, status \in {403, 500} : FetchNotOk(q, status)
    \/ \E q \in reqs : FetchFailed(q)
    \/ \E q \in reqs : FetchAborted(q)

\* The feed fetcher with its triggers; the durable store is left out of the
\* picture (no record, writable), since no feed operation reads it.
ShortRun == << reqBudget, pageBudget, aiBudget >> = << MaxReq, MaxPage, MaxAi >>

InitFeed == Init /\ ShortRun /\ store = Absent /\ storeWritable /\ hasApiKey

NextFeed ==
    \/ Mount
    \/ \E t \in Tabs : SetActiveTab(t)
    \/ \E r \in Ranges : SetActiveRange(r)
    \/ HandleRefresh
    \/ LoadMore
    \/ Completion
    \/ \E i \in 1..MaxToasts : ToastExpire(i)

Spec == InitFeed /\ [][NextFeed]_vars

\* The durable save store: startup, the feed that supplies the cards, toggleSave.
NextSave ==
    \/ Mount
    \/ Completion
    \/ \E i \in 1..MaxCards, k \in {1, 2} : ToggleSave(i, k)
    \/ Tick
    \/ \E i \in 1..MaxToasts : ToastExpire(i)

InitSave == Init /\ ShortRun /\ hasApiKey

SpecSave == InitSave /\ [][NextSave]_vars

\* The smart filter beside the operations that reset the feed; every response
\* of the feed is a full page here.
InitFilter == Init /\ ShortRun /\ store = Absent /\ storeWritable

NextFilter ==
    \/ Mount
    \/ \E t \in Tabs : SetActiveTab(t)
    \/ \E r \in Ranges : SetActiveRange(r)
    \/ LoadMore
    \/ \E q \in reqs : FetchItems(q, "full")
    \/ \E q \in reqs : FetchAborted(q)
    \/ \E v \in Queries : SetSearchQuery(v)
    \/ ToggleSmartMode
    \/ ClearFilters
    \/ HandleSearchSubmit
    \/ \E a \in aiReqs : \E ids \in AiAnswers(a.snapshot) : AiResolve(a, ids)
    \/ \E a \in aiReqs : AiReject(a)
    \/ \E i \in 1..MaxToasts : ToastExpire(i)

SpecFilter == InitFilter /\ [][NextFilter]_vars

\* The detail modal with its two enrichment components, over a loaded feed.
InitEnrich == Init /\ ShortRun /\ store = Absent /\ storeWritable

NextEnrich ==
    \/ Mount
    \/ \E q \in reqs : FetchItems(q, "full")
    \/ \E i \in 1..MaxCards : OpenModal(i)
    \/ CloseModal
    \/ \E r \in insightReqs, text \in InsightTexts : InsightResolve(r, text)
    \/ \E r \in insightReqs : InsightFail(r)
    \/ \E r \in langReqs, data \in LanguageData : LanguagesResolve(r, data)
    \/ \E r \in langReqs : LanguagesFail(r)
    \/ \E r \in langReqs : LanguagesAborted(r)

SpecEnrich == InitEnrich /\ [][NextEnrich]_vars

\* The smart filter over one loaded page of the feed, with classification
\* requests that overlap.
InitSmart ==
    /\ Init
    /\ << reqBudget, pageBudget, aiBudget >> = << MaxReq, MaxPage, MaxOverlapAi >>
    /\ store = Absent /\ storeWritable

NextSmart ==
    \/ Mount
    \/ \E q \in reqs : FetchItems(q, "full")
    \/ \E v \in Queries : SetSearchQuery(v)
    \/ ToggleSmartMode
    \/ ClearFilters
    \/ HandleSearchSubmit
    \/ \E a \in aiReqs : \E ids \in AiAnswers(a.snapshot) : AiResolve(a, ids)
    \/ \E a \in aiReqs : AiReject(a)
    \/ \E i \in 1..MaxToasts : ToastExpire(i)

SpecSmart == InitSmart /\ [][NextSmart]_vars

\* The feed paged to its limit: a response is a full page, a short page or a
\* body without items, the feed is
\* refreshed early in the run only, and the responses arrive in the order of
\* their requests, except that the answer to the first request of the run may
\* arrive at any later time.
InOrder(q) == q.id = 1 \/ q.id = nextReq - 1

InitPaging ==
    /\ Init
    /\ << reqBudget, pageBudget, aiBudget >> = << MaxDeepReq, MaxDeepPage, MaxAi >>
    /\ store = Absent /\ storeWritable /\ hasApiKey

NextPaging ==
    \/ Mount
    \/ nextReq <= MaxEarlyReq /\ HandleRefresh
    \/ LoadMore
    \/ \E q \in reqs, shape \in {"full", "short"} : InOrder(q) /\ FetchItems(q, shape)
    \/ \E q \in reqs : InOrder(q) /\ FetchNoItems(q)
    \/ \E q \in reqs : FetchAborted(q)

SpecPaging == InitPaging /\ [][NextPaging]_vars

\* The toast queue with the operations that add to it, and the 3000 ms timers
\* of the ToastItems: a timer that stays pending eventually fires.
InitToast == Init /\ ShortRun /\ store = Absent /\ storeWritable /\ hasApiKey

NextToast ==
    \/ Mount
    \/ HandleRefresh
    \/ \E q \in reqs : FetchItems(q, "full")
    \/ \E q \in reqs : FetchAborted(q)
    \/ \E i \in 1..MaxCards, k \in {1, 2} : ToggleSave(i, k)
    \/ Tick
    \/ \E i \in 1..MaxToasts : ToastExpire(i)

TimersFire == \A i \in 1..MaxToasts : WF_vars(ToastExpire(i))

SpecToast == InitToast /\ [][NextToast]_vars /\ TimersFire

\* The feed fetcher on a network where every request that was not aborted is
\* eventually answered, and where the first render is eventually committed.
Resolves(n) ==
    \E q \in reqs :
        /\ q.id = n
        /\ \/ \E shape \in Shapes : FetchItems(q, shape)
           \/ FetchNoItems(q)
           \/ \E status \in {403, 500} : FetchNotOk(q, status)
           \/ FetchFailed(q)

RequestsResolve == WF_vars(Mount) /\ \A n \in 1..MaxReq : WF_vars(Resolves(n))

SpecLoading == InitFeed /\ [][NextFeed]_vars /\ RequestsResolve

\* The view with all of its inputs in play: both sources (the feed, and a
\* saved collection of two entries loaded from the store), the query, smart
\* mode and the smart-filter result.
InitView ==
    /\ Init /\ ShortRun /\ storeWritable /\ hasApiKey
    /\ store = Stringify(<< SavedRepo(FirstId + 1, 0), SavedRepo(FirstId, 0) >>)

NextView ==
    \/ Mount
    \/ \E t \in {"trending", "saved"} : SetActiveTab(t)
    \/ \E q \in reqs : FetchItems(q, "full")
    \/ \E q \in reqs : FetchAborted(q)
    \/ \E v \in Queries : SetSearchQuery(v)
    \/ ToggleSmartMode
    \/ HandleSearchSubmit
    \/ \E a \in aiReqs : \E ids \in AiAnswers(a.snapshot) : AiResolve(a, ids)
    \/ \E i \in 1..MaxToasts : ToastExpire(i)

SpecView == InitView /\ [][NextView]_vars
\* ================================================================ claims
Entry(coll, id) == CHOOSE e \in Range(coll) : e.id = id

\* a request settles in this step: its promise resolves or rejects
Settles(q) == q \in reqs /\ \A x \in reqs' : x.id # q.id

\* a request that was not cancelled is in flight
LiveRequest == \E q \in reqs : ~q.aborted

\* ---------------------------------------------------------------------
\* C1: when a feed request of session A = (category, range) settles after
\* the category or range has changed to B, the repository sequence, has-more,
\* page, error and loading flags of B are left as they were.
C1_StaleResolutionLeavesFeedAlone ==
    [][\A q \in reqs :
          (Settles(q) /\ activeTab # "saved" /\ << q.t, q.r >> # << activeTab, activeRange >>)
              => UNCHANGED << repos, hasMore, page, errorMessage, isLoading, isFetchingMore >>]_vars

\* ---------------------------------------------------------------------
\* C2: whatever pages were fetched, and however they overlap, the feed's
\* repository sequence holds no identifier twice.
C2_NoDuplicateIdentifiers == Cardinality(Range(repos)) = Len(repos)

\* page 2 repeated the tail of page 1 and only its new items were appended
C2_Witness ==
    /\ Len(repos) = 2 * PER_PAGE - OverlapBy
    /\ lastOp.name = "fetchItems"
    /\ page = 2

\* ---------------------------------------------------------------------
\* C4: the completion of a cancelled feed request changes no state (list,
\* has-more, error, last-updated, loading flags, anything else) and adds no
\* notification.
C4_CancelledCompletionIsSilent ==
    [][\A q \in reqs :
          (Settles(q) /\ q.aborted)
              => UNCHANGED << cfgVars, enrichVars, phase, tabVars, listVars, isLoading, isFetchingMore,
                              aiFilteredIds, errorMessage, requestController, nextReq,
                              lastUpdated, saveVars, filterVars, toasts, now >>]_vars

\* a cancelled request has settled while the fetch that superseded it is
\* still loading
C4_Witness ==
    /\ lastOp.name = "fetchAborted"
    /\ lastOp.arg # requestController
    /\ isLoading
    /\ LiveRequest

\* ---------------------------------------------------------------------
\* C9: a next-page request is issued only when has-more is true, no feed
\* fetch is in flight and the active tab is not saved; in every other state
\* the trigger issues nothing and changes neither the page nor anything else.
IssuesNextPage == \E q \in reqs' : q.id = nextReq /\ q.p > 1
MayLoadMore == hasMore /\ ~LiveRequest /\ activeTab # "saved"

C9_NextPageOnlyWhenIdle ==
    [][/\ IssuesNextPage => MayLoadMore
       /\ (lastOp'.name = "loadMore" /\ ~MayLoadMore)
             => UNCHANGED << cfgVars, enrichVars, phase, feedVars, saveVars, filterVars, toasts, now >>]_vars

\* ---------------------------------------------------------------------
\* C10: within a feed session the result of page N > 1 is applied only after
\* the result of page N - 1 of that session, and never before its page 1.
C10_PagesAppliedInOrder ==
    [][\A s \in DOMAIN applied :
          applied'[s] # applied[s] => applied'[s] = applied[s] + 1]_vars

\* ---------------------------------------------------------------------
\* C6: when the durable store holds a valid collection S at startup, then
\* once the startup load and persist effects have run the in-memory saved
\* collection equals S and the durable record still equals S.  (The claim
\* adds that the store is read once; the two equalities already fail.)
C6_SavedCollectionSurvivesStartup ==
    (lastOp.name = "commit" /\ Parsable(store0))
        => /\ savedRepos = Parse(store0)
           /\ store = store0

\* ---------------------------------------------------------------------
\* C7: toggling save on the same repository twice brings the saved
\* collection back to the membership it had before the first toggle; when
\* the second toggle re-adds the repository, its savedAt is the time of
\* that second toggle.
ToggledTwice == Len(toggles) = 2 /\ toggles[1].id = toggles[2].id

C7_ToggleTwiceRestoresMembership ==
    ToggledTwice
        => /\ Ids(savedRepos) = Ids(toggles[1].before)
           /\ (toggles[2].id \in Ids(savedRepos)
                 => Entry(savedRepos, toggles[2].id).savedAt = toggles[2].time)

\* a repository saved in an earlier run was removed and saved again, and
\* carries a savedAt later than the one it had
C7_Witness ==
    /\ ToggledTwice
    /\ toggles[2].id \in Ids(savedRepos)
    /\ toggles[2].id \in Ids(toggles[1].before)
    /\ Entry(savedRepos, toggles[2].id).savedAt
          > Entry(toggles[1].before, toggles[2].id).savedAt

\* ---------------------------------------------------------------------
\* C8: the saved collection holds at most one entry per repository id and is
\* ordered most recently saved first: a toggle that saves puts the new entry
\* at the head of the collection it found, a toggle that removes deletes one
\* entry and keeps the others in their order.
RemovesOne(before, after) ==
    \E k \in 1..Len(before) :
        after = SubSeq(before, 1, k - 1) \o SubSeq(before, k + 1, Len(before))

NewestFirst(coll) == \A i, j \in 1..Len(coll) : i < j => coll[i].savedAt >= coll[j].savedAt

C8_OneEntryPerIdNewestFirst ==
    /\ Cardinality(Ids(savedRepos)) = Len(savedRepos)
    /\ NewestFirst(savedRepos)
    /\ (lastOp.name = "toggleSave" =>
          LET t == Last(toggles)
          IN  IF t.id \in Ids(t.before)
              THEN RemovesOne(t.before, savedRepos) /\ t.id \notin Ids(savedRepos)
              ELSE savedRepos = << SavedRepo(t.id, t.time) >> \o t.before)

\* a second repository was saved at a later instant than the first and stands
\* before it
C8_Witness ==
    /\ lastOp.name = "toggleSave"
    /\ Len(savedRepos) = 2
    /\ savedRepos[1].id = lastOp.arg
    /\ savedRepos[1].savedAt > savedRepos[2].savedAt
\* C3: changing the tab or the time range resets the page counter to 1,
\* empties the repository sequence in the same step (before any result of the
\* new page 1 can land) and sets the smart-filter result to null.
C3_ChangeResetsFeedAndFilter ==
    [][(activeTab' # activeTab \/ activeRange' # activeRange)
          => /\ page' = 1
             /\ repos' = << >>
             /\ aiFilteredIds' = None]_vars

\* C5: while no value is cached for an enrichment key, at most one network
\* call for that key is in flight (AI insight keyed by repository id,
\* languages keyed by owner/name).
InsightCallsInFlight(repo) == {r \in insightReqs : r.repo = repo}

LanguagesCallsInFlight(repo) == {r \in langReqs : r.repo = repo /\ ~r.aborted}

C5_CacheSingleFlight ==
    /\ \A r \in insightReqs :
          r.repo \notin DOMAIN aiInsightCache => Cardinality(InsightCallsInFlight(r.repo)) <= 1
    /\ \A r \in langReqs :
          CacheKey(r.repo) \notin DOMAIN languagesCache
              => Cardinality(LanguagesCallsInFlight(r.repo)) <= 1

\* ---------------------------------------------------------------------
\* C11: no search request carries a page number above the page limit (15 in
\* the cancelling fetcher, 34 in the other): once the page at the limit has
\* been loaded no further page is requested until the feed is reset.
C11_NoRequestBeyondPageLimit == \A q \in reqs : q.p <= PageLimit

\* ---------------------------------------------------------------------
\* C12: when a feed request that was not cancelled fails with a non-success
\* status or a network failure, has-more becomes false, a non-null error
\* message is recorded, the message is the rate-limit message exactly when the
\* status was 403, and the loaded repository sequence is left as it was.
FailureOps == {"fetchRateLimited", "fetchNotOk", "fetchFailed"}

C12_FailureRecordsError ==
    [][\A q \in reqs :
          (variant = "index" /\ Settles(q) /\ lastOp'.name \in FailureOps)
              => /\ ~hasMore'
                 /\ errorMessage' # NULL
                 /\ (errorMessage' = RATE_LIMIT_MESSAGE) = (lastOp'.name = "fetchRateLimited")
                 /\ repos' = repos]_vars

\* page 2 was answered 403 with page 1 on display
C12_Witness ==
    /\ lastOp.name = "fetchRateLimited"
    /\ variant = "index"
    /\ Len(repos) = PER_PAGE
    /\ page = 2
    /\ errorMessage = RATE_LIMIT_MESSAGE

\* ---------------------------------------------------------------------
\* C13: after a search request was answered 403 the error state shows the
\* rate-limit message with has-more false, and Retry issues the request that
\* failed again: same category, same range, same page.
RateLimited == lastOp.name = "fetchRateLimited" /\ variant = "index" /\ activeTab # "saved"

C13_RetryReissuesFailedRequest ==
    [][RateLimited =>
          /\ errorMessage = RATE_LIMIT_MESSAGE /\ ~hasMore
          /\ lastOp'.name = "handleRefresh"
                => \E q \in reqs' : /\ q.id = nextReq
                                    /\ << q.t, q.r, q.p >> = << lastOp.arg.t, lastOp.arg.r, lastOp.arg.p >>]_vars

\* ---------------------------------------------------------------------
\* C14: with a null smart-filter result the view is the source list with at
\* most the keyword filter applied; with an empty result the view is empty
\* and the empty state, when shown, gives the reason "AI found no matches",
\* never a generic one.
KeywordMatches == Filter(Source, {id \in Range(Source) : KeywordHit(id, searchQuery)})

C14_NullVersusEmptyFilter ==
    /\ aiFilteredIds = None => filteredRepos \in {Source, KeywordMatches}
    /\ aiFilteredIds = Some(<< >>)
          => /\ filteredRepos = << >>
             /\ EmptyState \in {NULL, AI_NO_MATCHES}

\* ---------------------------------------------------------------------
\* C15: when two smart-filter invocations overlap, the answer to the older
\* one, arriving after the newer one has started, does not overwrite the
\* smart-filter result.
NewerStarted(a) == nextAi > a.id + 1

C15_OlderAnswerDoesNotOverwrite ==
    [][\A a \in aiReqs :
          (a \notin aiReqs' /\ NewerStarted(a)) => UNCHANGED aiFilteredIds]_vars

\* ---------------------------------------------------------------------
\* C16: the smart-filter result is null right after the user turns smart
\* mode off, edits the query to the empty string, changes the tab or the
\* range, or clears the filters.
DisablesSmartMode == lastOp'.name = "toggleSmartMode" /\ ~isSmartFilterMode'
EmptiesQuery == lastOp'.name = "setSearchQuery" /\ searchQuery' = ""
ChangesFeed == activeTab' # activeTab \/ activeRange' # activeRange
ClearsFilters == lastOp'.name = "clearFilters"

C16_EventsClearSmartFilter ==
    [][(DisablesSmartMode \/ EmptiesQuery \/ ChangesFeed \/ ClearsFilters)
          => aiFilteredIds' = None]_vars

\* ---------------------------------------------------------------------
\* C17: a smart-filter invocation with a trimmed query shorter than 3
\* characters, or with no AI credential, issues no classification request,
\* adds a notice, and leaves the smart-filter result and the is-filtering
\* flag as they were.
RejectedInvocation ==
    lastOp'.name = "handleSearchSubmit" /\ (~LongEnough(searchQuery) \/ ~hasApiKey)

C17_RejectedInvocationNotifies ==
    [][RejectedInvocation =>
          /\ aiReqs' = aiReqs /\ nextAi' = nextAi
          /\ Len(toasts') = Len(toasts) + 1
          /\ UNCHANGED << aiFilteredIds, isAiFiltering >>]_vars

\* ---------------------------------------------------------------------
\* C18: when a classification request fails an error notice is added and
\* the smart-filter result is left as it was: an active result is not
\* cleared and a null result stays null.
C18_FailureKeepsSmartFilter ==
    [][\A a \in aiReqs :
          (a \notin aiReqs' /\ lastOp'.name = "aiReject")
              => /\ UNCHANGED aiFilteredIds
                 /\ Len(toasts') = Len(toasts) + 1
                 /\ toasts'[Len(toasts')].type = "error"]_vars

\* a classification failed while the result of an earlier one was active
C18_Witness ==
    /\ lastOp.name = "aiReject"
    /\ aiFilteredIds # None /\ aiFilteredIds # Some(<< >>)
    /\ toasts # << >> /\ toasts[Len(toasts)].type = "error"

\* ---------------------------------------------------------------------
\* C19: submitting a query of at least 3 characters in smart mode issues
\* exactly one classification request, whose payload is the feed's loaded
\* repository sequence; when the answer is the identifier set I the visible
\* list is exactly the source entries whose identifier is in I; and the view
\* is labelled AI Filtered exactly when the smart-filter result is non-null.
AiFilteredLabel == aiFilteredIds # None

AcceptedInvocation ==
    lastOp'.name = "handleSearchSubmit" /\ LongEnough(searchQuery) /\ hasApiKey

C19_SubmitClassifiesFeed ==
    [][/\ AcceptedInvocation
             => \E a \in aiReqs' : /\ a \notin aiReqs
                                   /\ aiReqs' = aiReqs \cup {a}
                                   /\ a.snapshot = repos
       /\ (lastOp'.name = "aiResolve" /\ isSmartFilterMode')
             => filteredRepos' = Filter(Source', Range(aiFilteredIds'[1]))
       /\ AiFilteredLabel' = (aiFilteredIds' # None)]_vars

\* the answer named one repository of the loaded page: it is the one entry
\* on display, under the label
C19_Witness ==
    /\ lastOp.name = "aiResolve"
    /\ isSmartFilterMode
    /\ Len(repos) = PER_PAGE
    /\ filteredRepos = << repos[1] >>
    /\ AiFilteredLabel

\* ---------------------------------------------------------------------
\* C20: after every toggleSave, once the persist effect has run and its
\* write succeeded, the durable record is the serialization of the whole
\* in-memory saved collection.
C20_PersistWritesWholeCollection ==
    (lastOp.name = "toggleSave" /\ storeWritable) => store = Stringify(savedRepos)

\* a second repository was saved: the record holds both entries
C20_Witness ==
    /\ lastOp.name = "toggleSave"
    /\ storeWritable
    /\ Len(savedRepos) = 2
    /\ store = Stringify(savedRepos)
    /\ store # store0

\* ---------------------------------------------------------------------
\* C21: when the durable record is absent or cannot be parsed at startup,
\* the load raises no error and the application continues with an empty
\* saved collection (until the first toggleSave).
UnreadableAtStartup == store0 \in {Absent, Corrupt} /\ storeWritable

C21_UnreadableRecordLoadsEmpty ==
    (UnreadableAtStartup /\ phase # "constructed")
        => /\ phase # "crashed"
           /\ (toggles = << >> => savedRepos = << >>)

\* ---------------------------------------------------------------------
\* C22: when writes to the durable store fail (index variant), the failure
\* changes nothing in memory and surfaces nothing: the application keeps
\* running, the startup load still installs the stored collection, a
\* toggleSave flips the membership of its repository in savedRepoIds, the
\* record keeps its old value, and the queue holds no error notification.
LastToggle == toggles[Len(toggles)]

C22_WriteFailureKeepsMemory ==
    (variant = "index" /\ ~storeWritable)
        => /\ phase # "crashed"
           /\ store = store0
           /\ \A i \in 1..Len(toasts) : toasts[i].type # "error"
           /\ (lastOp.name = "commit" /\ Parsable(store0))
                 => savedRepos = Parse(store0)
           /\ lastOp.name = "toggleSave"
                 => /\ (lastOp.arg \in savedRepoIds) = (lastOp.arg \notin Ids(LastToggle.before))
                    /\ savedRepos = ToggleSaveUpdater(LastToggle.before, lastOp.arg, LastToggle.time)

\* a repository saved while the store rejects writes: it is in memory, the
\* record is the one found at startup, and only the "Saved" toast is shown
C22_Witness ==
    /\ variant = "index"
    /\ ~storeWritable
    /\ lastOp.name = "toggleSave"
    /\ lastOp.arg \in savedRepoIds
    /\ store = store0
    /\ store # Stringify(savedRepos)
    /\ toasts # << >>

\* ---------------------------------------------------------------------
\* C23: a failed enrichment fetch (AI insight or languages) stores nothing
\* in either cache and leaves its component with the fallback value (the
\* fallback sentence, the empty language breakdown); a later mount for a
\* key that failed and is still uncached issues a new fetch for it.
InsightFails(r) == r \in insightReqs /\ r \notin insightReqs' /\ lastOp'.name = "insightFail"

LanguagesFails(r) == r \in langReqs /\ r \notin langReqs' /\ lastOp'.name = "languagesFail"

MountsModalFor(repo) == lastOp'.name = "openModal" /\ lastOp'.arg = repo

FailedKey(kind, repo) == [kind |-> kind, repo |-> repo] \in failed

C23_FailureCachesNothing ==
    [][/\ \A r \in insightReqs :
             InsightFails(r)
                 => /\ UNCHANGED << aiInsightCache, languagesCache >>
                    /\ r.inst = modalInst
                          => insight' = Some(FALLBACK_INSIGHT) /\ ~insightLoading'
       /\ \A r \in langReqs :
             LanguagesFails(r)
                 => /\ UNCHANGED << aiInsightCache, languagesCache >>
                    /\ r.inst = modalInst
                          => languages' = NoLanguages /\ ~languagesLoading'
       /\ \A i \in 1..Len(Cards) :
             LET repo == Cards[i]
             IN  /\ (/\ MountsModalFor(repo)
                     /\ FailedKey("insight", repo)
                     /\ repo \notin DOMAIN aiInsightCache
                     /\ hasApiKey)
                       => \E r \in insightReqs' \ insightReqs :
                             r.repo = repo /\ r.inst = modalInst'
                 /\ (/\ MountsModalFor(repo)
                     /\ FailedKey("languages", repo)
                     /\ CacheKey(repo) \notin DOMAIN languagesCache)
                       => \E r \in langReqs' \ langReqs :
                             r.repo = repo /\ r.inst = modalInst' /\ ~r.aborted]_vars

\* both fetches of a repository failed in the first modal; the second modal
\* fetched again, the answers were cached and are shown
C23_Witness ==
    /\ variant = "index"
    /\ lastOp.name \in {"insightResolve", "languagesResolve"}
    /\ \E repo \in Range(repos) :
          /\ selectedRepo = Some(repo)
          /\ FailedKey("insight", repo)
          /\ FailedKey("languages", repo)
          /\ repo \in DOMAIN aiInsightCache
          /\ CacheKey(repo) \in DOMAIN languagesCache
          /\ insight = Some(aiInsightCache[repo])
          /\ languages = languagesCache[CacheKey(repo)]

\* ---------------------------------------------------------------------
\* C24: a cached enrichment value stays cached, and every modal mounted for
\* a repository whose key is cached shows the cached value at once and adds
\* no request for that key (index variant, the one with the caches).
CachedInsight(repo) == variant = "index" /\ repo \in DOMAIN aiInsightCache

CachedLanguages(repo) == variant = "index" /\ CacheKey(repo) \in DOMAIN languagesCache

C24_CachedKeyIsNeverRefetched ==
    [][/\ DOMAIN aiInsightCache \subseteq DOMAIN aiInsightCache'
       /\ DOMAIN languagesCache \subseteq DOMAIN languagesCache'
       /\ \A i \in 1..Len(Cards) :
             LET repo == Cards[i]
             IN  /\ (MountsModalFor(repo) /\ CachedInsight(repo))
                       => /\ insight' = Some(aiInsightCache[repo])
                          /\ ~insightLoading'
                          /\ \A r \in insightReqs' \ insightReqs : r.repo # repo
                 /\ (MountsModalFor(repo) /\ CachedLanguages(repo))
                       => /\ languages' = languagesCache[CacheKey(repo)]
                          /\ ~languagesLoading'
                          /\ \A r \in langReqs' \ langReqs : r.repo # repo]_vars

\* the second modal of a repository, served from both caches with nothing in flight
C24_Witness ==
    /\ lastOp.name = "openModal"
    /\ modalInst = MaxInst
    /\ CachedInsight(lastOp.arg)
    /\ CachedLanguages(lastOp.arg)
    /\ insight = Some(aiInsightCache[lastOp.arg])
    /\ languages = languagesCache[CacheKey(lastOp.arg)]
    /\ insightReqs = {}
    /\ langReqs = {}

\* ---------------------------------------------------------------------
\* C25: for the AI insight (index variant), a failed request leaves the
\* mounted component showing the fixed fallback sentence, and a missing key
\* leaves it showing the fixed "add a key" sentence; neither adds a toast
\* nor sets the error message, and without a key no generateContent call
\* is ever in flight.
Quiet == UNCHANGED << toasts, errorMessage >>

C25_InsightFallsBackQuietly ==
    [][variant = "index"
          => /\ \A r \in insightReqs :
                   (InsightFails(r) /\ r.inst = modalInst)
                       => /\ insight' = Some(FALLBACK_INSIGHT)
                          /\ ~insightLoading'
                          /\ Quiet
             /\ ~hasApiKey
                   => /\ insightReqs' = {}
                      /\ lastOp'.name = "openModal"
                            => /\ insight' = Some(NEED_KEY_INSIGHT)
                               /\ ~insightLoading'
                               /\ Quiet]_vars

\* the request of the open modal failed: the fallback sentence is shown and
\* nothing else reports the failure
C25_Witness ==
    /\ variant = "index"
    /\ hasApiKey
    /\ lastOp.name = "insightFail"
    /\ selectedRepo # None
    /\ insight = Some(FALLBACK_INSIGHT)
    /\ ~insightLoading
    /\ toasts = << >>
    /\ errorMessage = NULL

\* ---------------------------------------------------------------------
\* C26: an enrichment fetch (AI insight, languages) whose modal has been
\* unmounted is cancelled: when it completes, no component state and no
\* shared cache changes.  (The claim says the same of the feed fetch and of
\* the smart-filter fetch, and of a fetch superseded in its slot.)
Unmounted(r) == r.inst # modalInst

C26_UnmountedFetchIsSilent ==
    [][/\ \A r \in insightReqs :
             (r \notin insightReqs' /\ Unmounted(r))
                 => UNCHANGED << modalVars, aiInsightCache, languagesCache >>
       /\ \A r \in langReqs :
             (r \notin langReqs' /\ Unmounted(r))
                 => UNCHANGED << modalVars, aiInsightCache, languagesCache >>]_vars

\* ---------------------------------------------------------------------
\* C27: every notification that enters the queue eventually leaves it by
\* its own timer, provided a pending timer eventually fires (TimersFire).
ToastTexts == {"Refreshed Feed", "Saved", "Removed"}

Notifications ==
    { t \in [id : 1..MaxClock, message : {Message(x, r) : x \in ToastTexts, r \in {0, FirstId, FirstId + 1}},
             type : {"success", "info"}] :
        \/ t.message.text = "Refreshed Feed" /\ t.message.repo = 0 /\ t.type = "success"
        \/ t.message.text = "Saved" /\ t.message.repo # 0 /\ t.type = "success"
        \/ t.message.text = "Removed" /\ t.message.repo # 0 /\ t.type = "info" }

Queued(t) == \E i \in 1..Len(toasts) : toasts[i] = t

C27_NotificationsExpire ==
    \A t \in Notifications : Queued(t) ~> ~Queued(t)

\* of two notifications, the timer of one has fired and the other still waits
C27_Witness ==
    /\ lastOp.name = "toastExpire"
    /\ Len(toasts) = 1
    /\ toasts[1] \in Notifications
    /\ toasts[1].id = MaxClock

\* ---------------------------------------------------------------------
\* C28: whenever a loading flag is up (initial loading or loading more),
\* the fetcher eventually stands with both flags down (Loaded, or Error
\* when errorMessage is set), whatever tab changes, range changes,
\* refreshes and load-more triggers occurred, provided every request that
\* was not aborted is eventually answered (RequestsResolve).
Busy == isLoading \/ isFetchingMore

C28_LoadingEventuallyEnds == Busy ~> ~Busy

\* the last request the run may issue was answered after a load-more and a
\* change of tab: the fetcher is at rest
C28_Witness ==
    /\ ~Busy
    /\ lastOp.name = "fetchItems"
    /\ lastOp.arg = MaxReq
    /\ activeTab = "latest"
    /\ reqs = {}
    /\ \E s \in DOMAIN applied : applied[s] = 2

\* ---------------------------------------------------------------------
\* C29: a successful answer to a page-1 request replaces the repository
\* sequence with the returned items; a successful answer to a page-N
\* request (N > 1) keeps the sequence as a prefix and appends, in response
\* order, exactly the returned items whose id was not in the sequence.
Answered(q) == q \in reqs /\ q \notin reqs' /\ lastOp'.name = "fetchItems" /\ lastOp'.arg = q.id

Appended == SubSeq(repos', Len(repos) + 1, Len(repos'))

C29_FirstPageReplacesLaterPagesAppend ==
    [][\A q \in reqs :
          Answered(q)
              => IF q.p = 1
                 THEN repos' = lastOp'.items
                 ELSE /\ Len(repos') >= Len(repos)
                      /\ SubSeq(repos', 1, Len(repos)) = repos
                      /\ Appended = Filter(lastOp'.items, Range(lastOp'.items) \ Range(repos))]_vars

\* a second page that repeats one item of the first: only its new item was appended
C29_Witness ==
    /\ lastOp.name = "fetchItems"
    /\ Len(lastOp.items) = ShortLen
    /\ Len(repos) = PER_PAGE + ShortLen - 1
    /\ SubSeq(repos, 1, PER_PAGE) = Items(activeTab, activeRange, 1, "full")
    /\ lastOp.items[1] = repos[PER_PAGE]
    /\ lastOp.items[ShortLen] = repos[Len(repos)]

\* ---------------------------------------------------------------------
\* C30: after every successful answer, for page 1 or a later page, hasMore
\* is (the page holds PER_PAGE items and its number is below the page
\* limit); an answer without items leaves hasMore false.
C30_HasMoreAfterEveryAnswer ==
    [][\A q \in reqs :
          /\ Answered(q)
                => hasMore' = (Len(lastOp'.items) = PER_PAGE /\ q.p < PageLimit)
          /\ (q \notin reqs' /\ lastOp'.name = "fetchNoItems") => ~hasMore']_vars

\* the page at the limit arrived full: there is no more to load
C30_Witness ==
    /\ lastOp.name = "fetchItems"
    /\ Len(lastOp.items) = PER_PAGE
    /\ page = PageLimit
    /\ applied[session] = PageLimit
    /\ ~hasMore

\* ---------------------------------------------------------------------
\* C31: the view skips the keyword filter exactly when the query is empty,
\* or smart mode is on with a non-null smart-filter result, or smart mode is
\* on with a null result while a classification request is in flight; in
\* every other case the keyword filter is applied.
AiFiltered ==
    IF aiFilteredIds = None THEN Source ELSE Filter(Source, Range(aiFilteredIds[1]))

KeywordFiltered ==
    Filter(AiFiltered, {id \in Range(AiFiltered) : KeywordHit(id, searchQuery)})

SkipsKeywordFilter ==
    \/ searchQuery = ""
    \/ isSmartFilterMode /\ aiFilteredIds # None
    \/ isSmartFilterMode /\ aiFilteredIds = None /\ aiReqs # {}

C31_KeywordFilterSkippedExactlyWhen ==
    filteredRepos = IF SkipsKeywordFilter THEN AiFiltered ELSE KeywordFiltered

\* ---------------------------------------------------------------------
\* C32: in keyword mode (smart mode off, no smart-filter result, a non-empty
\* query) the view holds exactly the source entries in which the query,
\* case-insensitively, is a substring of the name, the owner login, the
\* description, the language or a topic.
MatchesAnyField(id) ==
    LET r == Repo(id)
        q == ToLowerCase(Chars(searchQuery))
    IN  \/ Includes(ToLowerCase(r.name), q)
        \/ Includes(ToLowerCase(r.login), q)
        \/ Includes(ToLowerCase(r.description), q)
        \/ Includes(ToLowerCase(r.language), q)
        \/ \E i \in 1..Len(r.topics) : Includes(ToLowerCase(r.topics[i]), q)

KeywordMode == ~isSmartFilterMode /\ aiFilteredIds = None /\ searchQuery # ""

C32_KeywordModeMatchesFiveFields ==
    KeywordMode => filteredRepos = Filter(Source, {id \in Range(Source) : MatchesAnyField(id)})

\* ---------------------------------------------------------------------
\* C33: for every combination of tab, feed, saved collection, query, smart
\* mode and smart-filter result, the visible list is a subsequence of the
\* selected source (the saved collection on the saved tab, the feed
\* otherwise): only source entries, in the source's relative order.
RECURSIVE IsSubsequence(_, _)
IsSubsequence(a, b) ==
    IF a = << >> THEN TRUE
    ELSE IF b = << >> THEN FALSE
    ELSE IF Head(a) = Head(b) THEN IsSubsequence(Tail(a), Tail(b))
    ELSE IsSubsequence(a, Tail(b))

C33_ViewIsSubsequenceOfSource == IsSubsequence(filteredRepos, Source)

\* on the saved tab, with a feed answer that arrived after the switch: the
\* view is a proper, non-empty part of the saved collection
C33_Witness ==
    /\ activeTab = "saved"
    /\ repos # << >>
    /\ filteredRepos # << >>
    /\ Len(filteredRepos) < Len(Source)

\* ---------------------------------------------------------------------
\* C34: each enrichment cache key (repository id for the AI insight,
\* owner/name for the languages) is written at most once: an answer never
\* writes a key that is already in its cache.
C34_CacheKeysWrittenOnce ==
    [][/\ \A r \in insightReqs :
             (variant = "index" /\ r \notin insightReqs' /\ lastOp'.name = "insightResolve")
                 => r.repo \notin DOMAIN aiInsightCache
       /\ \A r \in langReqs :
             (variant = "index" /\ r \notin langReqs' /\ lastOp'.name = "languagesResolve")
                 => CacheKey(r.repo) \notin DOMAIN languagesCache]_vars

\* ---------------------------------------------------------------------
\* C35: a classification computed from the feed of one session is never
\* installed as the smart-filter result after the feed has been reset (tab
\* change, range change or refresh): an answer that sets the result belongs
\* to a request issued in the current feed session.
C35_NoResultFromAnEarlierSession ==
    [][\A a \in aiReqs :
          (a \notin aiReqs' /\ lastOp'.name = "aiResolve" /\ aiFilteredIds' # None)
              => a.session = session]_vars

\* ---------------------------------------------------------------------
\* C36: in every reachable state a non-null smart-filter result implies
\* that smart mode is on, also when a classification resolves after the
\* user switched smart mode off.
C36_ResultOnlyInSmartMode == aiFilteredIds # None => isSmartFilterMode

\* ---------------------------------------------------------------------
\* C37: isAiFiltering is true exactly when at least one classification
\* request is in flight, also when a second submission is made before the
\* first has resolved.
C37_FilteringFlagMeansInFlight == isAiFiltering = (aiReqs # {})

\* ---------------------------------------------------------------------
\* C38: while the saved tab is active the feed error message is null (every
\* state here follows the effects of the tab change): a feed request that
\* was pending at the switch to the saved tab never puts the error banner
\* on the saved tab.
C38_NoFeedErrorOnSavedTab ==
    (variant = "index" /\ activeTab = "saved") => errorMessage = NULL

\* ---------------------------------------------------------------------
\* C39: in the cancelling fetcher (index) at most one feed search request
\* that was not cancelled is in flight at any time, and whenever a new feed
\* request is issued every request started before it has been cancelled.
NotCancelled == {q \in reqs : ~q.aborted}

C39_OneLiveFeedRequest ==
    variant = "index"
        => /\ Cardinality(NotCancelled) <= 1
           /\ \A q \in reqs : q.id < nextReq - 1 => q.aborted

\* a change of tab found a request pending: it is cancelled, its successor is not
C39_Witness ==
    /\ variant = "index"
    /\ lastOp.name = "setActiveTab"
    /\ activeTab = "latest"
    /\ Cardinality(reqs) = 2
    /\ Cardinality(NotCancelled) = 1
    /\ \E q \in NotCancelled : q.id = nextReq - 1 /\ q.t = "latest"

\* ---------------------------------------------------------------------
\* C40: the notifications in the queue at one time have pairwise distinct
\* ids, also when two are added without the clock advancing between them
\* (so that removeToast(id) removes one notification only).
C40_ToastIdsDistinct ==
    \A i, j \in 1..Len(toasts) : i # j => toasts[i].id # toasts[j].id

====
